---- MODULE Spec2Model ----
(***************************************************************************)
(* Sliding-window moving-average generators of breakout2_solution.py:      *)
(* moving_average (deque with maxlen), moving_average_explicit (manual     *)
(* popleft) and moving_average_optimized (running sum).  Each generator is *)
(* a coroutine: it runs only between a next() of its consumer and its next *)
(* yield, return or exception.  One statement of the source is one action. *)
(*                                                                         *)
(* Averages are int / int true divisions.  A quotient is kept as the exact *)
(* fraction [num, den]; Python rounds the exact quotient correctly, so two *)
(* equal fractions are the same float (SameQuotient).                      *)
(***************************************************************************)
EXTENDS Integers, Sequences, FiniteSets, TLC

\* Bounds of the model.
MaxLen == 3
MaxVal == 2
MaxW == 3

\* The three generator functions.
MA == "moving_average"
EX == "moving_average_explicit"
OPT == "moving_average_optimized"
Variants == {MA, EX, OPT}

NoGen == "none"
NoErr == "none"
Unbound == "unbound"

Values == 0 .. MaxVal
\* window_size is an unchecked int argument: negative, zero and positive.
WindowSizes == (0 - 1) .. MaxW
Streams == UNION {[1 .. n -> Values] : n \in 0 .. MaxLen}

VARIABLES
    stream,       \* the data every generator iterates (each over its own iter(data))
    window_size,  \* the window_size argument, the same for the three generators
    pc,           \* pc[v]: where generator v stands
    pos,          \* pos[v]: elements v's stream iterator has handed out
    value,        \* value[v]: the loop variable
    window,       \* window[v]: the deque, left end first (<<>> until created)
    running_sum,  \* moving_average_optimized's running_sum
    average,      \* average[v]: the local average
    out,          \* out[v]: the values the consumer has received from v
    err,          \* err[v]: the exception v ended with
    running,      \* the generator that is executing, or NoGen
    \* Generator instances created by separate calls (two instances side by
    \* side; one instance fed by get_volume or by a list of arbitrary objects).
    frames,       \* frames[i]: the arguments and locals of generator instance i
    heap,         \* heap[r]: the contents of deque object r
    active,       \* the instance that is executing, or NoInst
    \* The decorators of breakout1_solution.py.
    funcs,        \* funcs[r]: function object r (a plain function or a wrapper closure)
    decorators,   \* the decorators written above the def, top line first
    bound,        \* the function object the decorated name is bound to
    callstack,    \* the frames of the calls in progress, innermost last
    retval,       \* <<the value returned to main>>, or <<>> before the return
    calls         \* every call made so far: the function object called and its argument

\* The variables of the three generators run over one shared stream.
averager_vars == <<stream, window_size, pc, pos, value, window, running_sum,
                   average, out, err, running>>
instance_vars == <<frames, heap, active>>
decorator_vars == <<funcs, decorators, bound, callstack, retval, calls>>

vars == <<averager_vars, instance_vars, decorator_vars>>

----------------------------------------------------------------------------
\* Python built-ins and deque operations, as the generators use them.

\* sum(window): left to right from 0; exact on ints.
RECURSIVE sum(_)
sum(w) == IF w = <<>> THEN 0 ELSE Head(w) + sum(Tail(w))

\* a / n on ints with n # 0: the exact quotient.
truediv(a, n) == [num |-> a, den |-> n]

\* deque(maxlen=m) raises ValueError("maxlen must be non-negative") when m < 0.
deque_maxlen_ok(m) == m >= 0

\* Bug variant: the bounded deque never trims.
deque_append_maxlen_untrimmed(w, m, x) == Append(w, x)

\* deque.append on a deque built with maxlen=m: append on the right, then
\* drop the leftmost element when the length exceeds m (m = 0 keeps nothing).
deque_append_maxlen(w, m, x) ==
    LET a == Append(w, x) IN IF Len(a) > m THEN Tail(a) ELSE a

\* Bug variant: appendleft() in place of append().
deque_appendleft(w, x) == <<x>> \o w

\* deque.append on an unbounded deque.
deque_append(w, x) == Append(w, x)

\* Bug variant: pop() in place of popleft(), dropping the newest element.
popleft_right(w) == SubSeq(w, 1, Len(w) - 1)

\* deque.popleft: the deque without its leftmost element.
popleft(w) == Tail(w)

\* Bug variant: evicts one element late, keeping window_size + 1 elements.
window_too_large_late(w, ws) == Len(w) > ws + 1

\* Bug variant: >= in place of >, evicting while the window is merely full.
window_too_large_early(w, ws) == Len(w) >= ws

\* if len(window) > window_size
window_too_large(w, ws) == Len(w) > ws

\* Bug variant: the loop stops one element early.
has_next_short(p, s) == p + 1 < Len(s)

\* for value in stream: whether the iterator has another element.
has_next(p, s) == p < Len(s)

----------------------------------------------------------------------------
\* No instance is executing: the consumer is in control.
NoInst == 0

\* No generator instance exists.
NoInstances ==
    /\ frames = <<>>
    /\ heap = <<>>
    /\ active = NoInst

\* No function is defined or decorated.
NoDecorators ==
    /\ funcs = <<>>
    /\ decorators = <<>>
    /\ bound = 0
    /\ callstack = <<>>
    /\ retval = <<>>
    /\ calls = <<>>

Init ==
    /\ NoInstances
    /\ NoDecorators
    /\ stream \in Streams
    /\ window_size \in WindowSizes
    /\ pc = [v \in Variants |-> "created"]
    /\ pos = [v \in Variants |-> 0]
    /\ value = [v \in Variants |-> Unbound]
    /\ window = [v \in Variants |-> <<>>]
    /\ running_sum = 0
    /\ average = [v \in Variants |-> Unbound]
    /\ out = [v \in Variants |-> <<>>]
    /\ err = [v \in Variants |-> NoErr]
    /\ running = NoGen

\* The consumer asks generator v for its next value: the generator starts
\* (first request) or resumes after its yield.  Nothing else is executing.
next(v) ==
    /\ running = NoGen
    /\ pc[v] \in {"created", "suspended"}
    /\ running' = v
    /\ pc' = [pc EXCEPT ![v] = IF pc[v] = "created" THEN "init" ELSE "for"]
    /\ UNCHANGED <<stream, window_size, pos, value, window, running_sum,
                   average, out, err>>
    /\ UNCHANGED <<instance_vars, decorator_vars>>

\* Generator v ends with exception e, which reaches the consumer.
Raise(v, e) ==
    /\ pc' = [pc EXCEPT ![v] = "error"]
    /\ err' = [err EXCEPT ![v] = e]
    /\ running' = NoGen

\* for value in stream: bind the next element, or return when exhausted.
ForStep(v, body) ==
    /\ running = v
    /\ pc[v] = "for"
    /\ IF has_next(pos[v], stream)
       THEN /\ value' = [value EXCEPT ![v] = stream[pos[v] + 1]]
            /\ pos' = [pos EXCEPT ![v] = pos[v] + 1]
            /\ pc' = [pc EXCEPT ![v] = body]
            /\ UNCHANGED running
       ELSE /\ pc' = [pc EXCEPT ![v] = "done"]
            /\ running' = NoGen
            /\ UNCHANGED <<value, pos>>
    /\ UNCHANGED <<stream, window_size, window, running_sum, average, out, err>>
    /\ UNCHANGED <<instance_vars, decorator_vars>>

\* Bug variant: divides by window_size, as if the window were padded to its
\* full size during warm-up.
AverageStep_padded(v, total) ==
    /\ running = v
    /\ pc[v] = "average"
    /\ IF window_size = 0
       THEN /\ Raise(v, "ZeroDivisionError")
            /\ UNCHANGED average
       ELSE /\ average' = [average EXCEPT ![v] = truediv(total, window_size)]
            /\ pc' = [pc EXCEPT ![v] = "yield"]
            /\ UNCHANGED <<err, running>>
    /\ UNCHANGED <<stream, window_size, pos, value, window, running_sum, out>>
    /\ UNCHANGED <<instance_vars, decorator_vars>>

\* average = total / len(window); ZeroDivisionError on an empty window.
AverageStep(v, total) ==
    /\ running = v
    /\ pc[v] = "average"
    /\ IF Len(window[v]) = 0
       THEN /\ Raise(v, "ZeroDivisionError")
            /\ UNCHANGED average
       ELSE /\ average' = [average EXCEPT ![v] = truediv(total, Len(window[v]))]
            /\ pc' = [pc EXCEPT ![v] = "yield"]
            /\ UNCHANGED <<err, running>>
    /\ UNCHANGED <<stream, window_size, pos, value, window, running_sum, out>>
    /\ UNCHANGED <<instance_vars, decorator_vars>>

\* yield average: the consumer receives the value, the generator suspends.
YieldStep(v) ==
    /\ running = v
    /\ pc[v] = "yield"
    /\ out' = [out EXCEPT ![v] = Append(out[v], average[v])]
    /\ pc' = [pc EXCEPT ![v] = "suspended"]
    /\ running' = NoGen
    /\ UNCHANGED <<stream, window_size, pos, value, window, running_sum,
                   average, err>>
    /\ UNCHANGED <<instance_vars, decorator_vars>>

----------------------------------------------------------------------------
\* moving_average

\* Bug variant: the padded start of the reflection notes (first_val =
\* stream_list[0]), which raises IndexError on an empty stream.
MA_Init_padded ==
    /\ running = MA
    /\ pc[MA] = "init"
    /\ IF stream = <<>>
       THEN Raise(MA, "IndexError")
       ELSE /\ pc' = [pc EXCEPT ![MA] = "for"]
            /\ UNCHANGED <<err, running>>
    /\ UNCHANGED <<stream, window_size, pos, value, window, running_sum,
                   average, out>>
    /\ UNCHANGED <<instance_vars, decorator_vars>>

\* window = deque(maxlen=window_size)
MA_Init ==
    /\ running = MA
    /\ pc[MA] = "init"
    /\ IF deque_maxlen_ok(window_size)
       THEN /\ window' = [window EXCEPT ![MA] = <<>>]
            /\ pc' = [pc EXCEPT ![MA] = "for"]
            /\ UNCHANGED <<err, running>>
       ELSE /\ Raise(MA, "ValueError")
            /\ UNCHANGED window
    /\ UNCHANGED <<stream, window_size, pos, value, running_sum, average, out>>
    /\ UNCHANGED <<instance_vars, decorator_vars>>

MA_For == ForStep(MA, "append")

\* window.append(value)
MA_Append ==
    /\ running = MA
    /\ pc[MA] = "append"
    /\ window' = [window EXCEPT
                    ![MA] = deque_append_maxlen(window[MA], window_size, value[MA])]
    /\ pc' = [pc EXCEPT ![MA] = "average"]
    /\ UNCHANGED <<stream, window_size, pos, value, running_sum, average, out,
                   err, running>>
    /\ UNCHANGED <<instance_vars, decorator_vars>>

\* average = sum(window) / len(window)
MA_Average == AverageStep(MA, sum(window[MA]))

MA_Yield == YieldStep(MA)

----------------------------------------------------------------------------
\* moving_average_explicit

\* Bug variant: the stream is materialised first (stream_list = list(stream),
\* as in the padded variant of the reflection notes), reading it to its end.
EX_Init_eager ==
    /\ running = EX
    /\ pc[EX] = "init"
    /\ window' = [window EXCEPT ![EX] = <<>>]
    /\ pos' = [pos EXCEPT ![EX] = Len(stream)]
    /\ pc' = [pc EXCEPT ![EX] = "for"]
    /\ UNCHANGED <<stream, window_size, value, running_sum, average, out,
                   err, running>>
    /\ UNCHANGED <<instance_vars, decorator_vars>>

\* window = deque()
EX_Init ==
    /\ running = EX
    /\ pc[EX] = "init"
    /\ window' = [window EXCEPT ![EX] = <<>>]
    /\ pc' = [pc EXCEPT ![EX] = "for"]
    /\ UNCHANGED <<stream, window_size, pos, value, running_sum, average, out,
                   err, running>>
    /\ UNCHANGED <<instance_vars, decorator_vars>>

EX_For == ForStep(EX, "append")

\* window.append(value)
EX_Append ==
    /\ running = EX
    /\ pc[EX] = "append"
    /\ window' = [window EXCEPT ![EX] = deque_append(window[EX], value[EX])]
    /\ pc' = [pc EXCEPT ![EX] = "evict"]
    /\ UNCHANGED <<stream, window_size, pos, value, running_sum, average, out,
                   err, running>>
    /\ UNCHANGED <<instance_vars, decorator_vars>>

\* if len(window) > window_size: window.popleft()
EX_Evict ==
    /\ running = EX
    /\ pc[EX] = "evict"
    /\ window' = [window EXCEPT
                    ![EX] = IF window_too_large(window[EX], window_size)
                            THEN popleft(window[EX]) ELSE window[EX]]
    /\ pc' = [pc EXCEPT ![EX] = "average"]
    /\ UNCHANGED <<stream, window_size, pos, value, running_sum, average, out,
                   err, running>>
    /\ UNCHANGED <<instance_vars, decorator_vars>>

\* average = sum(window) / len(window)
EX_Average == AverageStep(EX, sum(window[EX]))

EX_Yield == YieldStep(EX)

----------------------------------------------------------------------------
\* moving_average_optimized

\* window = deque(); running_sum = 0
OPT_Init ==
    /\ running = OPT
    /\ pc[OPT] = "init"
    /\ window' = [window EXCEPT ![OPT] = <<>>]
    /\ running_sum' = 0
    /\ pc' = [pc EXCEPT ![OPT] = "for"]
    /\ UNCHANGED <<stream, window_size, pos, value, average, out, err, running>>
    /\ UNCHANGED <<instance_vars, decorator_vars>>

OPT_For == ForStep(OPT, "append")

\* window.append(value)
OPT_Append ==
    /\ running = OPT
    /\ pc[OPT] = "append"
    /\ window' = [window EXCEPT ![OPT] = deque_append(window[OPT], value[OPT])]
    /\ pc' = [pc EXCEPT ![OPT] = "add"]
    /\ UNCHANGED <<stream, window_size, pos, value, running_sum, average, out,
                   err, running>>
    /\ UNCHANGED <<instance_vars, decorator_vars>>

\* Bug variant: = in place of +=.
OPT_Add_assign ==
    /\ running = OPT
    /\ pc[OPT] = "add"
    /\ running_sum' = value[OPT]
    /\ pc' = [pc EXCEPT ![OPT] = "evict"]
    /\ UNCHANGED <<stream, window_size, pos, value, window, average, out, err,
                   running>>
    /\ UNCHANGED <<instance_vars, decorator_vars>>

\* running_sum += value
OPT_Add ==
    /\ running = OPT
    /\ pc[OPT] = "add"
    /\ running_sum' = running_sum + value[OPT]
    /\ pc' = [pc EXCEPT ![OPT] = "evict"]
    /\ UNCHANGED <<stream, window_size, pos, value, window, average, out, err,
                   running>>
    /\ UNCHANGED <<instance_vars, decorator_vars>>

\* Bug variant: the evicted value is not subtracted from running_sum.
OPT_Evict_nosub ==
    /\ running = OPT
    /\ pc[OPT] = "evict"
    /\ IF window_too_large(window[OPT], window_size)
       THEN window' = [window EXCEPT ![OPT] = popleft(window[OPT])]
       ELSE UNCHANGED window
    /\ pc' = [pc EXCEPT ![OPT] = "average"]
    /\ UNCHANGED <<stream, window_size, pos, value, running_sum, average, out,
                   err, running>>
    /\ UNCHANGED <<instance_vars, decorator_vars>>

\* if len(window) > window_size: removed_value = window.popleft();
\*                               running_sum -= removed_value
OPT_Evict ==
    /\ running = OPT
    /\ pc[OPT] = "evict"
    /\ IF window_too_large(window[OPT], window_size)
       THEN /\ window' = [window EXCEPT ![OPT] = popleft(window[OPT])]
            /\ running_sum' = running_sum - Head(window[OPT])
       ELSE UNCHANGED <<window, running_sum>>
    /\ pc' = [pc EXCEPT ![OPT] = "average"]
    /\ UNCHANGED <<stream, window_size, pos, value, average, out, err, running>>
    /\ UNCHANGED <<instance_vars, decorator_vars>>

\* average = running_sum / len(window)
OPT_Average == AverageStep(OPT, running_sum)

OPT_Yield == YieldStep(OPT)

----------------------------------------------------------------------------
Request == \E v \in Variants : next(v)

Next ==
    \/ Request
    \/ MA_Init \/ MA_For \/ MA_Append \/ MA_Average \/ MA_Yield
    \/ EX_Init \/ EX_For \/ EX_Append \/ EX_Evict \/ EX_Average \/ EX_Yield
    \/ OPT_Init \/ OPT_For \/ OPT_Append \/ OPT_Add \/ OPT_Evict
    \/ OPT_Average \/ OPT_Yield

Spec == Init /\ [][Next]_vars

----------------------------------------------------------------------------
\* Reference notions the properties are stated with, independent of the
\* operators the generators use.

\* s[a] + ... + s[b]
RECURSIVE SumRange(_, _, _)
SumRange(s, a, b) == IF a > b THEN 0 ELSE s[a] + SumRange(s, a + 1, b)

\* The exact mean of s[a .. b].
Mean(s, a, b) == [num |-> SumRange(s, a, b), den |-> b - a + 1]

\* The int x as a quotient.
Exact(x) == [num |-> x, den |-> 1]

\* Two quotients with positive denominators denote the same number.
SameQuotient(a, b) == a.num * b.den = b.num * a.den

Min(a, b) == IF a <= b THEN a ELSE b

AllDone == \A v \in Variants : pc[v] = "done"

----------------------------------------------------------------------------
\* C1: with window_size >= 1, in each of the three generators the n-th
\* output, for every n >= window_size, is the exact mean of the window_size
\* most recent inputs, stream[n - window_size + 1 .. n].
C1_MeanOfLastW ==
    window_size >= 1 =>
        \A v \in Variants : \A n \in 1 .. Len(out[v]) :
            n >= window_size =>
                SameQuotient(out[v][n], Mean(stream, n - window_size + 1, n))

\* Every generator has slid a window of 2 over three inputs that differ.
C1_Witness ==
    /\ window_size = 2
    /\ Len(stream) = 3
    /\ stream[1] # stream[3]
    /\ \A v \in Variants : Len(out[v]) = 3

\* C2: with window_size >= 1, each generator emits one output per input:
\* at every yield the outputs emitted equal the inputs consumed, never more
\* outputs than inputs consumed in between, and once the input is exhausted
\* the outputs are as many as the inputs.
C2_OneOutputPerInput ==
    window_size >= 1 =>
        \A v \in Variants :
            /\ Len(out[v]) <= pos[v]
            /\ pos[v] <= Len(out[v]) + 1
            /\ pc[v] = "suspended" => Len(out[v]) = pos[v]
            /\ pc[v] = "done" => Len(out[v]) = Len(stream)

\* Every generator has exhausted a stream of three elements.
C2_Witness ==
    /\ window_size >= 1
    /\ Len(stream) = 3
    /\ AllDone
    /\ \A v \in Variants : Len(out[v]) = 3

\* C3: with window_size >= 1, during warm-up (n < window_size) each
\* generator emits an output for every input it consumes, the n-th being the
\* mean of the first n inputs; the first output is the first input.
C3_WarmUp ==
    window_size >= 1 =>
        \A v \in Variants :
            /\ (pc[v] = "suspended" /\ pos[v] < window_size)
                   => Len(out[v]) = pos[v]
            /\ \A n \in 1 .. Len(out[v]) :
                   /\ n < window_size
                          => SameQuotient(out[v][n], Mean(stream, 1, n))
                   /\ n = 1 => SameQuotient(out[v][1], Exact(stream[1]))

\* Every generator has emitted two warm-up outputs of a window of 3.
C3_Witness ==
    /\ window_size = 3
    /\ Len(stream) >= 2
    /\ stream[1] # stream[2]
    /\ \A v \in Variants : Len(out[v]) = 2 /\ pc[v] = "suspended"

\* C4: with window_size <= 0 each generator fails with an invalid-argument
\* error (ValueError) before it consumes any input or emits any output: it
\* consumes nothing, emits nothing, never returns normally, and the only
\* exception it ends with is ValueError.
C4_RejectsBeforeConsuming ==
    window_size <= 0 =>
        \A v \in Variants :
            /\ pos[v] = 0
            /\ out[v] = <<>>
            /\ pc[v] # "done"
            /\ pc[v] = "error" => err[v] = "ValueError"

\* C5: with window_size >= 1, at every yield of moving_average_optimized
\* running_sum is the sum of the values held in the window.
C5_RunningSumIsWindowSum ==
    window_size >= 1 =>
        (pc[OPT] \in {"yield", "suspended"}
            => running_sum = SumRange(window[OPT], 1, Len(window[OPT])))

\* moving_average_optimized is at a yield after an eviction of a non-zero
\* value.
C5_Witness ==
    /\ window_size = 2
    /\ pc[OPT] = "suspended"
    /\ pos[OPT] = 3
    /\ stream[1] # 0
    /\ Len(window[OPT]) = 2

\* C6 as stated: with window_size >= 1 the window holds at most window_size
\* elements in every state, between statements as well as at yields.
C6_WindowBoundAlways ==
    window_size >= 1 =>
        \A v \in Variants : Len(window[v]) <= window_size

\* C6 amended: with window_size >= 1, moving_average's window (a deque with
\* maxlen) holds at most window_size elements in every state; the windows of
\* moving_average_explicit and moving_average_optimized hold at most
\* window_size elements at every yield and everywhere else except between
\* window.append(value) and the eviction test, where they hold at most
\* window_size + 1.
C6_WindowBound ==
    window_size >= 1 =>
        /\ Len(window[MA]) <= window_size
        /\ \A v \in {EX, OPT} :
               /\ Len(window[v]) <= window_size + 1
               /\ pc[v] \notin {"add", "evict"} => Len(window[v]) <= window_size

\* Every generator is at a yield with a full window after an eviction.
C6_Witness ==
    /\ window_size = 2
    /\ \A v \in Variants :
           pc[v] = "suspended" /\ pos[v] = 3 /\ Len(window[v]) = 2

\* C7: with window_size >= 1 and the same integer stream, the n-th output
\* of moving_average_optimized equals the n-th output of moving_average and
\* of moving_average_explicit, at every position all of them have emitted.
C7_VariantsAgree ==
    window_size >= 1 =>
        \A v \in {MA, EX} :
            \A n \in 1 .. Min(Len(out[OPT]), Len(out[v])) :
                SameQuotient(out[OPT][n], out[v][n])

\* The three generators have each emitted three outputs, the last after an
\* eviction.
C7_Witness ==
    /\ window_size = 2
    /\ Len(stream) = 3
    /\ stream[1] # stream[2]
    /\ stream[1] # 0
    /\ \A v \in Variants : Len(out[v]) = 3

\* C8: on an empty stream with window_size >= 1 each generator emits
\* nothing and raises nothing; started, it can only return.
C8_EmptyInput ==
    (stream = <<>> /\ window_size >= 1) =>
        \A v \in Variants :
            /\ out[v] = <<>>
            /\ err[v] = NoErr
            /\ pc[v] \in {"created", "init", "for", "done"}

\* Every generator has returned on the empty stream.
C8_Witness ==
    /\ stream = <<>>
    /\ window_size >= 1
    /\ AllDone
    /\ \A v \in Variants : out[v] = <<>> /\ err[v] = NoErr

\* C9: with window_size >= 1, wherever a generator divides by len(window)
\* the window holds at least one element, and no generator ends with
\* ZeroDivisionError.
C9_NoDivisionByZero ==
    window_size >= 1 =>
        \A v \in Variants :
            /\ pc[v] = "average" => Len(window[v]) >= 1
            /\ err[v] # "ZeroDivisionError"

\* Every generator has divided after an eviction from a window of 1 and one
\* is about to divide again.
C9_Witness ==
    /\ window_size = 1
    /\ \A v \in Variants : Len(out[v]) >= 2
    /\ \E v \in Variants : pc[v] = "average" /\ pos[v] = 3

\* C10: with window_size = 1 the outputs of each generator are the inputs,
\* element for element, and as many once the stream is exhausted.
C10_IdentityAtOne ==
    window_size = 1 =>
        \A v \in Variants :
            /\ \A n \in 1 .. Len(out[v]) :
                   SameQuotient(out[v][n], Exact(stream[n]))
            /\ pc[v] = "done" => Len(out[v]) = Len(stream)

\* Every generator has passed three inputs that differ through a window of 1.
C10_Witness ==
    /\ window_size = 1
    /\ Len(stream) = 3
    /\ stream[1] # stream[2]
    /\ stream[2] # stream[3]
    /\ AllDone
    /\ \A v \in Variants : Len(out[v]) = 3

\* stream[Max(0, n - w) + 1 .. n]: the last w of the first n elements.
Max(a, b) == IF a >= b THEN a ELSE b
LastW(s, n, w) == SubSeq(s, Max(0, n - w) + 1, n)

\* C11: eviction is strict FIFO.  With window_size >= 1, once a generator
\* has finished the window update of its n-th step the window is, in order,
\* stream[max(0, n - window_size) + 1 .. n]; before it appends the n-th
\* element the window is that slice for n - 1, and between the append and
\* the eviction test it is that slice followed by the n-th element: only the
\* leftmost (oldest) element leaves, and at most one per step.
C11_StrictFifo ==
    window_size >= 1 =>
        \A v \in Variants :
            CASE pc[v] \in {"created", "init"} -> window[v] = <<>>
              [] pc[v] = "append" ->
                    window[v] = LastW(stream, pos[v] - 1, window_size)
              [] pc[v] \in {"add", "evict"} ->
                    window[v] = Append(LastW(stream, pos[v] - 1, window_size),
                                       stream[pos[v]])
              [] OTHER -> window[v] = LastW(stream, pos[v], window_size)

\* Every generator is at its third yield with a window of 2 over three
\* inputs that all differ: the first input has been evicted.
C11_Witness ==
    /\ window_size = 2
    /\ Len(stream) = 3
    /\ stream[1] # stream[2] /\ stream[2] # stream[3] /\ stream[1] # stream[3]
    /\ \A v \in Variants :
           pc[v] = "suspended" /\ pos[v] = 3
           /\ window[v] = <<stream[2], stream[3]>>

\* While the consumer is in control, a generator that has delivered k
\* outputs and has not raised has taken exactly k elements.
NothingReadAhead ==
    running = NoGen =>
        \A v \in Variants :
            pc[v] \in {"created", "suspended", "done"} => pos[v] = Len(out[v])

\* An element is taken from the stream only by the generator that a request
\* has set running, one element at a time, and only when every element taken
\* before has been answered by an output.
ConsumedOnRequest ==
    \A v \in Variants :
        pos'[v] # pos[v] =>
            /\ running = v
            /\ pos'[v] = pos[v] + 1
            /\ Len(out[v]) = pos[v]

\* C12: evaluation is pull-based with no read-ahead: an element is consumed
\* only in response to a request for the next output, so after k outputs
\* exactly k elements have been taken, and a consumer that stops after k
\* outputs leaves the rest of the input unconsumed.
C12_PullBased == [](NothingReadAhead) /\ [][ConsumedOnRequest]_vars

\* The consumer holds two outputs of every generator and no generator is
\* running: the third element of the stream is still unconsumed.
C12_Witness ==
    /\ Len(stream) = 3
    /\ running = NoGen
    /\ \A v \in Variants :
           pc[v] = "suspended" /\ Len(out[v]) = 2 /\ pos[v] = 2

----------------------------------------------------------------------------
\* Generator instances.  Every call of a generator function has its own
\* frame (arguments and locals) and its own deque object on the heap; the
\* elements of a stream are Python objects, and a stream is either a list
\* iterator or get_volume over the rows of a csv.DictReader.

\* Python objects: an int, a str (its characters), None.
PyInt(n) == [type |-> "int", int |-> n]
PyStr(cs) == [type |-> "str", chars |-> cs]
PyNone == [type |-> "NoneType"]

Digits == <<"0", "1", "2", "3", "4", "5", "6", "7", "8", "9">>
IsDigit(c) == \E d \in 1 .. 10 : Digits[d] = c
DigitValue(c) == (CHOOSE d \in 1 .. 10 : Digits[d] = c) - 1

\* The decimal digits cs read left to right.
RECURSIVE int_of_digits(_)
int_of_digits(cs) ==
    IF cs = <<>> THEN 0
    ELSE 10 * int_of_digits(SubSeq(cs, 1, Len(cs) - 1)) + DigitValue(cs[Len(cs)])

\* int(x): the exception it raises, or NoErr.  A str of characters among
\* digits, letters and "." converts when it is one or more digits and raises
\* ValueError otherwise; None raises TypeError.
int_error(x) ==
    CASE x.type = "int" -> NoErr
      [] x.type = "NoneType" -> "TypeError"
      [] x.type = "str" ->
            IF x.chars # <<>> /\ \A k \in 1 .. Len(x.chars) : IsDigit(x.chars[k])
            THEN NoErr ELSE "ValueError"

\* int(x) where it raises nothing.
int_value(x) == IF x.type = "int" THEN x.int ELSE int_of_digits(x.chars)

\* Whether sum(w) adds up: 0 + x raises TypeError for a str or None.
sum_ok(w) == \A k \in 1 .. Len(w) : w[k].type = "int"

\* The ints of a deque of int objects.
ints(w) == [k \in 1 .. Len(w) |-> w[k].int]

\* The contents of instance i's window (empty before the deque exists).
window_of(i) ==
    IF frames[i].window \in DOMAIN heap THEN heap[frames[i].window] ELSE <<>>

\* A generator object right after the call fn(stream, window_size): nothing
\* of its body has run.
NewFrame(fn, src, s, ws) ==
    [fn |-> fn, source |-> src, stream |-> s, window_size |-> ws,
     pc |-> "created", pos |-> 0, row |-> PyNone, value |-> PyNone,
     window |-> 0, running_sum |-> 0, average |-> Unbound, out |-> <<>>,
     err |-> NoErr]

\* Instance i ends with exception e, which reaches the consumer.
I_Raise(i, e) ==
    /\ frames' = [frames EXCEPT ![i].pc = "error", ![i].err = e]
    /\ active' = NoInst

\* The consumer asks instance i for its next value.
I_next(i) ==
    /\ active = NoInst
    /\ frames[i].pc \in {"created", "suspended"}
    /\ active' = i
    /\ frames' = [frames EXCEPT
                    ![i].pc = IF frames[i].pc = "created" THEN "init" ELSE "for"]
    /\ UNCHANGED <<heap, averager_vars, decorator_vars>>

\* Bug variant: one deque shared by every call (a module-level window, or a
\* mutable default argument).
I_Init_shared(i) ==
    /\ active = i
    /\ frames[i].pc = "init"
    /\ IF frames[i].fn = MA /\ ~deque_maxlen_ok(frames[i].window_size)
       THEN /\ I_Raise(i, "ValueError")
            /\ UNCHANGED heap
       ELSE /\ heap' = IF heap = <<>> THEN <<<<>>>> ELSE heap
            /\ frames' = [frames EXCEPT ![i].window = 1,
                                        ![i].running_sum = 0,
                                        ![i].pc = "for"]
            /\ UNCHANGED active
    /\ UNCHANGED <<averager_vars, decorator_vars>>

\* window = deque(maxlen=window_size)  /  window = deque()  /
\* window = deque(); running_sum = 0: a new deque object.
I_Init(i) ==
    /\ active = i
    /\ frames[i].pc = "init"
    /\ IF frames[i].fn = MA /\ ~deque_maxlen_ok(frames[i].window_size)
       THEN /\ I_Raise(i, "ValueError")
            /\ UNCHANGED heap
       ELSE /\ heap' = Append(heap, <<>>)
            /\ frames' = [frames EXCEPT ![i].window = Len(heap) + 1,
                                        ![i].running_sum = 0,
                                        ![i].pc = "for"]
            /\ UNCHANGED active
    /\ UNCHANGED <<averager_vars, decorator_vars>>

\* Bug variant: the loop reads one element ahead of the one it is due.
stream_item_ahead(s, p) == IF p + 2 <= Len(s) THEN s[p + 2] ELSE s[p + 1]

\* The element an iterator at position p hands out next.
stream_item(s, p) == s[p + 1]

\* for value in stream.  Over a list iterator: bind the next element, or
\* return when exhausted.  Over get_volume: control passes to get_volume.
I_For(i) ==
    /\ active = i
    /\ frames[i].pc = "for"
    /\ IF frames[i].source = "get_volume"
       THEN /\ frames' = [frames EXCEPT ![i].pc = "gv_for"]
            /\ UNCHANGED active
       ELSE IF has_next(frames[i].pos, frames[i].stream)
            THEN /\ frames' = [frames EXCEPT
                        ![i].value = stream_item(frames[i].stream, frames[i].pos),
                        ![i].pos = frames[i].pos + 1,
                        ![i].pc = "append"]
                 /\ UNCHANGED active
            ELSE /\ frames' = [frames EXCEPT ![i].pc = "done"]
                 /\ active' = NoInst
    /\ UNCHANGED <<heap, averager_vars, decorator_vars>>

\* get_volume: for row in dictreader.  Reads the next row, or returns when
\* the reader is exhausted, which ends the averager's loop as well.
GV_For(i) ==
    /\ active = i
    /\ frames[i].pc = "gv_for"
    /\ IF has_next(frames[i].pos, frames[i].stream)
       THEN /\ frames' = [frames EXCEPT
                   ![i].row = stream_item(frames[i].stream, frames[i].pos),
                   ![i].pos = frames[i].pos + 1,
                   ![i].pc = "gv_yield"]
            /\ UNCHANGED active
       ELSE /\ frames' = [frames EXCEPT ![i].pc = "done"]
            /\ active' = NoInst
    /\ UNCHANGED <<heap, averager_vars, decorator_vars>>

\* Bug variant: a row that does not convert is passed on as 0
\* (try: int(...) except: 0).
GV_Yield_coerce(i) ==
    /\ active = i
    /\ frames[i].pc = "gv_yield"
    /\ frames' = [frames EXCEPT
            ![i].value = IF int_error(frames[i].row) = NoErr
                         THEN PyInt(int_value(frames[i].row)) ELSE PyInt(0),
            ![i].pc = "append"]
    /\ UNCHANGED <<heap, active, averager_vars, decorator_vars>>

\* get_volume: yield int(row['Volume']).  The converted int becomes the
\* averager's value; an exception of int() leaves get_volume and then the
\* averager, whose for statement does not catch it.
GV_Yield(i) ==
    /\ active = i
    /\ frames[i].pc = "gv_yield"
    /\ IF int_error(frames[i].row) = NoErr
       THEN /\ frames' = [frames EXCEPT
                   ![i].value = PyInt(int_value(frames[i].row)),
                   ![i].pc = "append"]
            /\ UNCHANGED active
       ELSE I_Raise(i, int_error(frames[i].row))
    /\ UNCHANGED <<heap, averager_vars, decorator_vars>>

\* window.append(value)
I_Append(i) ==
    /\ active = i
    /\ frames[i].pc = "append"
    /\ heap' = [heap EXCEPT ![frames[i].window] =
                   IF frames[i].fn = MA
                   THEN deque_append_maxlen(@, frames[i].window_size,
                                            frames[i].value)
                   ELSE deque_append(@, frames[i].value)]
    /\ frames' = [frames EXCEPT
            ![i].pc = CASE frames[i].fn = MA -> "average"
                        [] frames[i].fn = EX -> "evict"
                        [] frames[i].fn = OPT -> "add"]
    /\ UNCHANGED <<active, averager_vars, decorator_vars>>

\* running_sum += value (moving_average_optimized): TypeError unless value
\* is a number.
I_Add(i) ==
    /\ active = i
    /\ frames[i].pc = "add"
    /\ IF frames[i].value.type = "int"
       THEN /\ frames' = [frames EXCEPT
                   ![i].running_sum = frames[i].running_sum + frames[i].value.int,
                   ![i].pc = "evict"]
            /\ UNCHANGED active
       ELSE I_Raise(i, "TypeError")
    /\ UNCHANGED <<heap, averager_vars, decorator_vars>>

\* if len(window) > window_size: window.popleft()
\* (moving_average_optimized: and running_sum -= removed_value)
I_Evict(i) ==
    /\ active = i
    /\ frames[i].pc = "evict"
    /\ IF window_too_large(window_of(i), frames[i].window_size)
       THEN /\ heap' = [heap EXCEPT ![frames[i].window] = popleft(@)]
            /\ frames' = [frames EXCEPT
                   ![i].running_sum =
                       IF frames[i].fn = OPT
                       THEN frames[i].running_sum - Head(window_of(i)).int
                       ELSE frames[i].running_sum,
                   ![i].pc = "average"]
       ELSE /\ frames' = [frames EXCEPT ![i].pc = "average"]
            /\ UNCHANGED heap
    /\ UNCHANGED <<active, averager_vars, decorator_vars>>

\* average = sum(window) / len(window)   (moving_average_optimized:
\* running_sum / len(window)).  sum raises TypeError on an element that is
\* no number; the division raises ZeroDivisionError on an empty window.
I_Average(i) ==
    /\ active = i
    /\ frames[i].pc = "average"
    /\ IF frames[i].fn # OPT /\ ~sum_ok(window_of(i))
       THEN I_Raise(i, "TypeError")
       ELSE IF Len(window_of(i)) = 0
            THEN I_Raise(i, "ZeroDivisionError")
            ELSE /\ frames' = [frames EXCEPT
                        ![i].average =
                            truediv(IF frames[i].fn = OPT
                                    THEN frames[i].running_sum
                                    ELSE sum(ints(window_of(i))),
                                    Len(window_of(i))),
                        ![i].pc = "yield"]
                 /\ UNCHANGED active
    /\ UNCHANGED <<heap, averager_vars, decorator_vars>>

\* yield average
I_Yield(i) ==
    /\ active = i
    /\ frames[i].pc = "yield"
    /\ frames' = [frames EXCEPT
            ![i].out = Append(frames[i].out, frames[i].average),
            ![i].pc = "suspended"]
    /\ active' = NoInst
    /\ UNCHANGED <<heap, averager_vars, decorator_vars>>

\* The generators of Spec neither exist nor run.
NoAveragers ==
    /\ stream = <<>>
    /\ window_size = 1
    /\ pc = [v \in Variants |-> "absent"]
    /\ pos = [v \in Variants |-> 0]
    /\ value = [v \in Variants |-> Unbound]
    /\ window = [v \in Variants |-> <<>>]
    /\ running_sum = 0
    /\ average = [v \in Variants |-> Unbound]
    /\ out = [v \in Variants |-> <<>>]
    /\ err = [v \in Variants |-> NoErr]
    /\ running = NoGen

----------------------------------------------------------------------------
\* Two instances of one generator function, each called with its own list
\* iterator and the same window_size, stepped by one consumer in any order.

\* Bounds of the two-instance model.
TwoLen == 3
TwoValues == {0, MaxVal}
TwoW == 2
TwoWindowSizes == 1 .. TwoW

TwoStreams == UNION {[1 .. n -> {PyInt(x) : x \in TwoValues}] : n \in 0 .. TwoLen}

InitTwo ==
    /\ NoAveragers
    /\ NoDecorators
    /\ heap = <<>>
    /\ active = NoInst
    /\ \E fn \in Variants, ws \in TwoWindowSizes, s1 \in TwoStreams,
          s2 \in TwoStreams :
           frames = <<NewFrame(fn, "iterator", s1, ws),
                      NewFrame(fn, "iterator", s2, ws)>>

NextTwo ==
    \/ \E i \in DOMAIN frames : I_next(i)
    \/ \E i \in DOMAIN frames : I_Init(i)
    \/ \E i \in DOMAIN frames : I_For(i)
    \/ \E i \in DOMAIN frames : I_Append(i)
    \/ \E i \in DOMAIN frames : I_Add(i)
    \/ \E i \in DOMAIN frames : I_Evict(i)
    \/ \E i \in DOMAIN frames : I_Average(i)
    \/ \E i \in DOMAIN frames : I_Yield(i)

SpecTwo == InitTwo /\ [][NextTwo]_vars

\* The ints of a sequence of int objects, for the reference mean.
AsInts(s) == [k \in 1 .. Len(s) |-> s[k].int]

\* Every output instance i has delivered is the one its function produces
\* when it runs alone on i's stream: the mean of the last window_size (or
\* fewer, during warm-up) elements up to that position.
OutputsAsAlone ==
    \A i \in DOMAIN frames :
        \A n \in 1 .. Len(frames[i].out) :
            SameQuotient(frames[i].out[n],
                         Mean(AsInts(frames[i].stream),
                              Max(0, n - frames[i].window_size) + 1, n))

\* A step taken while instance j is not executing leaves j's window and
\* j's running_sum as they were.
OthersUntouched ==
    \A j \in DOMAIN frames :
        active # j =>
            /\ window_of(j)' = window_of(j)
            /\ frames'[j].running_sum = frames[j].running_sum

\* C14: the window and the running sum belong to one instance.  Two
\* instances over separate streams, stepped in any interleaving: a step of
\* one leaves the other's window and running sum unchanged, and each
\* delivers the outputs it delivers when run alone.
C14_PrivateState == [](OutputsAsAlone) /\ [][OthersUntouched]_vars

\* Two instances with different streams have both slid a window of 2 over
\* three elements and hold different windows.
C14_Witness ==
    /\ DOMAIN frames = {1, 2}
    /\ frames[1].window_size = 2
    /\ frames[1].stream # frames[2].stream
    /\ Len(frames[1].out) = 3
    /\ Len(frames[2].out) = 3
    /\ frames[1].window # frames[2].window
    /\ window_of(1) # window_of(2)
    /\ frames[1].running_sum # frames[2].running_sum

\* C16: outputs are causal and deterministic.  Two runs of the same
\* function with the same window_size whose streams agree on their first n
\* elements deliver the same n-th output, whatever the later elements are.
C16_Causal ==
    DOMAIN frames = {1, 2} =>
        \A n \in 1 .. Min(Len(frames[1].out), Len(frames[2].out)) :
            SubSeq(frames[1].stream, 1, n) = SubSeq(frames[2].stream, 1, n)
                => frames[1].out[n] = frames[2].out[n]

\* Two runs whose streams agree on two elements and differ in the third:
\* the first two outputs are the same and the third differ.
C16_Witness ==
    /\ DOMAIN frames = {1, 2}
    /\ Len(frames[1].out) = 3
    /\ Len(frames[2].out) = 3
    /\ SubSeq(frames[1].stream, 1, 2) = SubSeq(frames[2].stream, 1, 2)
    /\ frames[1].stream[1] # frames[1].stream[2]
    /\ frames[1].out[2] = frames[2].out[2]
    /\ frames[1].out[3] # frames[2].out[3]

----------------------------------------------------------------------------
\* One generator instance at the end of a pipeline: fed by a list iterator
\* over arbitrary objects, or by get_volume over the rows of a DictReader.

\* What a list may hold: ints, a str (even one that reads as a number), None.
StreamObjects == {PyInt(x) : x \in Values} \cup {PyStr(<<"5">>), PyNone}

\* row['Volume'] of a csv row: a str, or None for a row that is too short.
VolumeFields ==
    {PyStr(<<"3">>), PyStr(<<"1", "2">>), PyStr(<<>>), PyStr(<<"x">>),
     PyStr(<<"1", ".", "5">>), PyNone}

InitPipeline ==
    /\ NoAveragers
    /\ NoDecorators
    /\ heap = <<>>
    /\ active = NoInst
    /\ \E fn \in Variants, ws \in 1 .. MaxW, n \in 0 .. MaxLen :
           \/ \E s \in [1 .. n -> StreamObjects] :
                  frames = <<NewFrame(fn, "iterator", s, ws)>>
           \/ \E s \in [1 .. n -> VolumeFields] :
                  frames = <<NewFrame(fn, "get_volume", s, ws)>>

NextPipeline ==
    \/ \E i \in DOMAIN frames : I_next(i)
    \/ \E i \in DOMAIN frames : I_Init(i)
    \/ \E i \in DOMAIN frames : I_For(i)
    \/ \E i \in DOMAIN frames : GV_For(i)
    \/ \E i \in DOMAIN frames : GV_Yield(i)
    \/ \E i \in DOMAIN frames : I_Append(i)
    \/ \E i \in DOMAIN frames : I_Add(i)
    \/ \E i \in DOMAIN frames : I_Evict(i)
    \/ \E i \in DOMAIN frames : I_Average(i)
    \/ \E i \in DOMAIN frames : I_Yield(i)

SpecPipeline == InitPipeline /\ [][NextPipeline]_vars

\* Reference: the number an element stands for.  An int object is its
\* value; a Volume field made of one or more decimal digits is the number
\* the digits write; anything else is no number.
DecimalChars == {"0", "1", "2", "3", "4", "5", "6", "7", "8", "9"}
RefDigit(c) ==
    CASE c = "0" -> 0 [] c = "1" -> 1 [] c = "2" -> 2 [] c = "3" -> 3
      [] c = "4" -> 4 [] c = "5" -> 5 [] c = "6" -> 6 [] c = "7" -> 7
      [] c = "8" -> 8 [] c = "9" -> 9

RECURSIVE RefDecimal(_)
RefDecimal(cs) ==
    IF Len(cs) = 1 THEN RefDigit(cs[1])
    ELSE RefDigit(cs[1]) * (10 ^ (Len(cs) - 1)) + RefDecimal(Tail(cs))

\* Whether element x of a stream of the given source is a number.
IsNumber(src, x) ==
    IF src = "iterator" THEN x.type = "int"
    ELSE /\ x.type = "str"
         /\ x.chars # <<>>
         /\ \A k \in 1 .. Len(x.chars) : x.chars[k] \in DecimalChars

RefNumber(x) == IF x.type = "int" THEN x.int ELSE RefDecimal(x.chars)

\* The position of the first element that is no number (Len + 1: none).
FirstBad(src, s) ==
    IF \A k \in 1 .. Len(s) : IsNumber(src, s[k]) THEN Len(s) + 1
    ELSE CHOOSE k \in 1 .. Len(s) :
             /\ ~IsNumber(src, s[k])
             /\ \A m \in 1 .. k - 1 : IsNumber(src, s[m])

\* The numbers of the first n elements.
RefNumbers(s, n) == [k \in 1 .. n |-> RefNumber(s[k])]

\* C13: when the element at position k is the first that is no number (a
\* list element that is no int, or a row whose int conversion fails), the
\* pipeline delivers the correct outputs for positions 1 .. k-1, raises
\* TypeError or ValueError on the request for output k, and delivers no
\* output for position k or later: nothing is coerced or skipped.
C13_ErrorAtPointOfFailure ==
    \A i \in DOMAIN frames :
        LET f == frames[i]
            k == FirstBad(f.source, f.stream)
        IN  /\ Len(f.out) <= k - 1
            /\ f.pos <= k
            /\ \A n \in 1 .. Len(f.out) :
                   SameQuotient(f.out[n],
                                Mean(RefNumbers(f.stream, n),
                                     Max(0, n - f.window_size) + 1, n))
            /\ f.pc = "error" =>
                   /\ k <= Len(f.stream)
                   /\ f.pos = k
                   /\ Len(f.out) = k - 1
                   /\ f.err \in {"TypeError", "ValueError"}
            /\ f.pc = "done" =>
                   (k = Len(f.stream) + 1 /\ Len(f.out) = Len(f.stream))
            /\ (f.pc = "suspended" /\ k <= Len(f.stream)) => f.pos < k

\* get_volume failed to convert the third row: two outputs were delivered,
\* the third request raised ValueError.
C13_Witness ==
    /\ DOMAIN frames = {1}
    /\ frames[1].source = "get_volume"
    /\ frames[1].window_size = 2
    /\ Len(frames[1].stream) = 3
    /\ frames[1].stream[1] # frames[1].stream[2]
    /\ frames[1].pc = "error"
    /\ frames[1].err = "ValueError"
    /\ frames[1].pos = 3
    /\ Len(frames[1].out) = 2

----------------------------------------------------------------------------
\* The decorators of breakout1_solution.py: shout (no arguments) and
\* style(prefix, suffix), stacked above one def and then called once.
\* A str is the sequence of its characters.

\* Bound of the decorator model: how many decorators are stacked.
MaxStack == 2

Str_hello == <<"h", "e", "l", "l", "o", " ">>
Str_bangs == <<"!", "!", "!">>

LowerCase == <<"a", "b", "c", "d", "e", "f", "g", "h", "i", "j", "k", "l", "m",
               "n", "o", "p", "q", "r", "s", "t", "u", "v", "w", "x", "y", "z">>
UpperCase == <<"A", "B", "C", "D", "E", "F", "G", "H", "I", "J", "K", "L", "M",
               "N", "O", "P", "Q", "R", "S", "T", "U", "V", "W", "X", "Y", "Z">>

\* str.upper() on ASCII text: every lower-case letter becomes its capital.
upper(str) ==
    [k \in 1 .. Len(str) |->
        IF \E c \in 1 .. 26 : LowerCase[c] = str[k]
        THEN UpperCase[CHOOSE c \in 1 .. 26 : LowerCase[c] = str[k]]
        ELSE str[k]]

\* The plain functions main defines: greet returns f"hello {name}", the
\* others (say_something, important_message, announce) return their argument.
PlainFunctions == {"greet", "important_message"}
body(name, x) == IF name = "greet" THEN Str_hello \o x ELSE x

\* The decorator objects above a def: shout itself, or the closure that
\* style(prefix, suffix) returns.
Prefixes == {<<>>, <<"*", "a", " ">>, <<"=", ">">>}
Suffixes == {<<>>, <<" ", "b", "*">>, <<"<", "=">>}
ShoutDecorator == [name |-> "shout", prefix |-> <<>>, suffix |-> <<>>]
StyleDecorator(p, s) == [name |-> "style", prefix |-> p, suffix |-> s]
Decorators ==
    {ShoutDecorator} \cup {StyleDecorator(p, s) : p \in Prefixes, s \in Suffixes}

Arguments == {<<>>, <<"h", "i">>, <<"a", " ", "Z">>}

\* A function object: a plain function, or a wrapper closure over func
\* (and, for style, over prefix and suffix).
PlainFunction(name) ==
    [kind |-> "plain", name |-> name, func |-> 0, prefix |-> <<>>, suffix |-> <<>>]
Wrapper(kind, func, p, s) ==
    [kind |-> kind, name |-> "wrapper", func |-> func, prefix |-> p, suffix |-> s]

\* The frame of a call of function object fn with argument x.
CallFrame(fn, x) == [fn |-> fn, args |-> x, pc |-> "call", result |-> <<>>]

InitDecorators ==
    /\ NoAveragers
    /\ NoInstances
    /\ \E name \in PlainFunctions : funcs = <<PlainFunction(name)>>
    /\ decorators \in UNION {[1 .. n -> Decorators] : n \in 0 .. MaxStack}
    /\ bound = 1
    /\ callstack = <<>>
    /\ retval = <<>>
    /\ calls = <<>>

\* Decorators applied so far: one wrapper object each.
applied == Len(funcs) - 1

\* Bug variant: the stack is applied top-down, the topmost decorator first.
next_decorator_topdown(ds, n) == ds[n + 1]

\* The decorator applied after n of them have been: the one nearest the
\* def that is still unapplied.
next_decorator(ds, n) == ds[Len(ds) - n]

Top == callstack[Len(callstack)]
TopFunc == funcs[Top.fn]

\* return v from the innermost call: to the caller's result, or to main.
Return(v) ==
    IF Len(callstack) = 1
    THEN /\ callstack' = <<>>
         /\ retval' = <<v>>
    ELSE /\ callstack' =
               [k \in 1 .. Len(callstack) - 1 |->
                   IF k = Len(callstack) - 1
                   THEN [callstack[k] EXCEPT !.result = v, !.pc = "transform"]
                   ELSE callstack[k]]
         /\ UNCHANGED retval

\* func(*args, **kwargs) in a wrapper: call the wrapped function object
\* with the wrapper's own arguments.
CallWrapped ==
    /\ callstack' = Append([callstack EXCEPT ![Len(callstack)].pc = "wait"],
                           CallFrame(TopFunc.func, Top.args))
    /\ calls' = Append(calls, [fn |-> TopFunc.func, args |-> Top.args])

\* @shout: name = shout(name); shout returns its wrapper closure.
Shout_Decorate ==
    /\ callstack = <<>> /\ retval = <<>> /\ calls = <<>>
    /\ applied < Len(decorators)
    /\ next_decorator(decorators, applied).name = "shout"
    /\ funcs' = Append(funcs, Wrapper("shout", bound, <<>>, <<>>))
    /\ bound' = Len(funcs) + 1
    /\ UNCHANGED <<decorators, callstack, retval, calls>>
    /\ UNCHANGED <<averager_vars, instance_vars>>

\* @style(prefix, suffix): name = decorator(name); decorator returns its
\* wrapper closure over func, prefix and suffix.
Style_Decorate ==
    /\ callstack = <<>> /\ retval = <<>> /\ calls = <<>>
    /\ applied < Len(decorators)
    /\ next_decorator(decorators, applied).name = "style"
    /\ funcs' = Append(funcs,
                       Wrapper("style", bound,
                               next_decorator(decorators, applied).prefix,
                               next_decorator(decorators, applied).suffix))
    /\ bound' = Len(funcs) + 1
    /\ UNCHANGED <<decorators, callstack, retval, calls>>
    /\ UNCHANGED <<averager_vars, instance_vars>>

\* main calls the decorated name with an argument.
Main_Call ==
    /\ callstack = <<>> /\ retval = <<>> /\ calls = <<>>
    /\ applied = Len(decorators)
    /\ \E x \in Arguments :
           /\ callstack' = <<CallFrame(bound, x)>>
           /\ calls' = <<[fn |-> bound, args |-> x]>>
    /\ UNCHANGED <<funcs, decorators, bound, retval>>
    /\ UNCHANGED <<averager_vars, instance_vars>>

\* The plain function returns its string.
Plain_Return ==
    /\ callstack # <<>>
    /\ TopFunc.kind = "plain"
    /\ Top.pc = "call"
    /\ Return(body(TopFunc.name, Top.args))
    /\ UNCHANGED <<funcs, decorators, bound, calls>>
    /\ UNCHANGED <<averager_vars, instance_vars>>

\* shout's wrapper: result = func(*args, **kwargs)
Shout_CallFunc ==
    /\ callstack # <<>>
    /\ TopFunc.kind = "shout"
    /\ Top.pc = "call"
    /\ CallWrapped
    /\ UNCHANGED <<funcs, decorators, bound, retval>>
    /\ UNCHANGED <<averager_vars, instance_vars>>

\* shout's wrapper: shouted_result = result.upper() + "!!!"; return it
Shout_Return ==
    /\ callstack # <<>>
    /\ TopFunc.kind = "shout"
    /\ Top.pc = "transform"
    /\ Return(upper(Top.result) \o Str_bangs)
    /\ UNCHANGED <<funcs, decorators, bound, calls>>
    /\ UNCHANGED <<averager_vars, instance_vars>>

\* style's wrapper: result = func(*args, **kwargs)
Style_CallFunc ==
    /\ callstack # <<>>
    /\ TopFunc.kind = "style"
    /\ Top.pc = "call"
    /\ CallWrapped
    /\ UNCHANGED <<funcs, decorators, bound, retval>>
    /\ UNCHANGED <<averager_vars, instance_vars>>

\* style's wrapper: styled_result = f"{prefix}{result}{suffix}"; return it
Style_Return ==
    /\ callstack # <<>>
    /\ TopFunc.kind = "style"
    /\ Top.pc = "transform"
    /\ Return(TopFunc.prefix \o Top.result \o TopFunc.suffix)
    /\ UNCHANGED <<funcs, decorators, bound, calls>>
    /\ UNCHANGED <<averager_vars, instance_vars>>

NextDecorators ==
    \/ Shout_Decorate \/ Style_Decorate \/ Main_Call \/ Plain_Return
    \/ Shout_CallFunc \/ Shout_Return \/ Style_CallFunc \/ Style_Return

SpecDecorators == InitDecorators /\ [][NextDecorators]_vars

\* Reference: what the plain function returns, and capitals, written out.
RefBody(name, x) ==
    IF name = "greet" THEN <<"h", "e", "l", "l", "o", " ">> \o x ELSE x

RefCapital(c) ==
    CASE c = "a" -> "A" [] c = "b" -> "B" [] c = "e" -> "E" [] c = "h" -> "H"
      [] c = "i" -> "I" [] c = "l" -> "L" [] c = "o" -> "O"
      [] OTHER -> c

RefUpper(str) == [k \in 1 .. Len(str) |-> RefCapital(str[k])]

\* How many calls function object r has received.
TimesCalled(r) == Cardinality({k \in DOMAIN calls : calls[k].fn = r})

\* C15: stacked decorators are applied bottom-up.  Once the call has
\* returned, with x the argument main passed and f the plain function:
\* under @style(p1, s1) over @style(p2, s2) the result is
\* p1 + p2 + f(x) + s2 + s1; under @shout over @style(p, s) it is
\* upper(p + f(x) + s) + "!!!"; and every wrapper and f itself has been
\* called exactly once, with the argument x unchanged.  No function object is
\* ever called twice.
C15_BottomUp ==
    /\ \A r \in DOMAIN funcs : TimesCalled(r) <= 1
    /\ retval # <<>> =>
        LET x == calls[1].args
            fx == RefBody(funcs[1].name, x)
        IN  /\ (/\ Len(decorators) = 2
                /\ decorators[1].name = "style"
                /\ decorators[2].name = "style")
                   => retval[1] = decorators[1].prefix \o decorators[2].prefix
                                  \o fx
                                  \o decorators[2].suffix \o decorators[1].suffix
            /\ (/\ Len(decorators) = 2
                /\ decorators[1].name = "shout"
                /\ decorators[2].name = "style")
                   => retval[1] = RefUpper(decorators[2].prefix \o fx
                                           \o decorators[2].suffix)
                                  \o <<"!", "!", "!">>
            /\ \A r \in DOMAIN funcs : TimesCalled(r) = 1
            /\ \A k \in DOMAIN calls : calls[k].args = x

\* greet("hi") has returned through two style wrappers with different,
\* non-empty prefixes and suffixes.
C15_Witness ==
    /\ retval # <<>>
    /\ Len(decorators) = 2
    /\ decorators[1].name = "style"
    /\ decorators[2].name = "style"
    /\ decorators[1].prefix # <<>> /\ decorators[2].prefix # <<>>
    /\ decorators[1].prefix # decorators[2].prefix
    /\ decorators[1].suffix # <<>> /\ decorators[2].suffix # <<>>
    /\ decorators[1].suffix # decorators[2].suffix
    /\ funcs[1].name = "greet"
    /\ calls[1].args = <<"h", "i">>
    /\ Len(calls) = 3

====
